---- MODULE Spec2Model ----
(***************************************************************************)
(* Attendance notifier (src/app.py): the aggregator get_student_data, the  *)
(* message formatters, the notifier, the two webhook handlers, the         *)
(* scheduled job and the scheduler loop.                                   *)
(*                                                                         *)
(* Representation.  A Python dict is a TLA+ function; dict.get(k) is       *)
(* Get(d, k).  None, SQL null and JSON null are NULL.  A key or table name *)
(* that the code inspects for '_' is held split on '_' (the column         *)
(* 'Roll_No' is <<"Roll","No">>, '25_01_2025' is <<"25","01","2025">>), so *)
(* that str.count('_') and str.replace('_',' ') are computed, not assumed. *)
(* A store response whose data is None is the empty dict <<>>: the code    *)
(* only ever tests response.data for truthiness.                           *)
(***************************************************************************)
EXTENDS Integers, Sequences, FiniteSets, TLC

\* ------------------------------------------------------------ bounds
MaxTotal == 32       \* largest number of recognized marks of a summary
NumRolls == 2      \* roll numbers known to the model
NumTables == 3     \* subject tables (a prefix of SUBJECT_TABLES) that can hold rows
MaxDay == 1        \* last calendar day of the clock (days 0..MaxDay)
TicksPerDay == 4   \* poll ticks (one time.sleep(60) each) in a calendar day

\* ------------------------------------------------------------ values
NULL == "NULL"
RollName == <<"R1", "R2", "R3", "R4">>
Rolls == {RollName[i] : i \in 1..NumRolls}

\* a str that the code splits or scans, held split on '_'; None is <<>>
NoneStr == <<>>
ColRoll == <<"Roll", "No">>          \* 'Roll_No': one '_'
ColSection == <<"Section">>          \* a non-date column that may hold 'A'
OldDate == <<"24", "01", "2025">>    \* a date column that is never today's

Get(d, k) == IF k \in DOMAIN d THEN d[k] ELSE NULL

\* Python truthiness of a str-or-None value
Truthy(v) == v # NULL /\ v # ""

SUBJECT_TABLES ==
    << <<"advance", "engineering", "mathematics", "i">>,
       <<"data", "structures", "and", "algorithms">>,
       <<"data", "structures", "and", "algorithms", "lab">>,
       <<"digital", "electronics">>,
       <<"digital", "electronics", "lab">>,
       <<"object", "oriented", "programming">>,
       <<"object", "oriented", "programming", "lab">>,
       <<"software", "engineering">>,
       <<"software", "engineering", "lab">>,
       <<"technical", "communication">> >>

TableIdx == 1..Len(SUBJECT_TABLES)
ActiveTables == 1..NumTables

\* str.title() on one lower-case word of the table vocabulary
TitleWord(w) ==
    CASE w = "advance" -> "Advance"
      [] w = "engineering" -> "Engineering"
      [] w = "mathematics" -> "Mathematics"
      [] w = "i" -> "I"
      [] w = "data" -> "Data"
      [] w = "structures" -> "Structures"
      [] w = "and" -> "And"
      [] w = "algorithms" -> "Algorithms"
      [] w = "lab" -> "Lab"
      [] w = "digital" -> "Digital"
      [] w = "electronics" -> "Electronics"
      [] w = "object" -> "Object"
      [] w = "oriented" -> "Oriented"
      [] w = "programming" -> "Programming"
      [] w = "software" -> "Software"
      [] w = "technical" -> "Technical"
      [] w = "communication" -> "Communication"
      [] OTHER -> w

\* table_name.replace('_', ' ').title(): the words, each title-cased, joined
\* by spaces (held as the sequence of words).  None has no .replace: raises.
format_subject_name(table_name) ==
    IF table_name = NoneStr
    THEN [raised |-> TRUE, value |-> <<>>]
    ELSE [raised |-> FALSE,
          value |-> [i \in 1..Len(table_name) |-> TitleWord(table_name[i])]]

\* ------------------------------------------------------------ clock
DayStr == <<"25", "26", "27", "28", "29", "30", "31">>

\* datetime.now().strftime('%d_%m_%Y')
strftime(t) == <<DayStr[t.day + 1], "01", "2025">>

\* ------------------------------------------------------------ state
VARIABLES
    studentsrecord,   \* store: roll -> identity row ([Name, whatsapp_no]) or <<>>
    subject,          \* store: roll -> table index -> row (dict) or <<>>
    singleRaises,     \* build: does .single().execute() raise when no row matches
    now,              \* wall clock [day, slot]
    agg,              \* last call of get_student_data: its inputs and its result
    fmt,              \* last call of a message formatter: its input and its text
    evt,              \* request context: the webhook call being answered, or idle
    job,              \* scheduler thread: the run_scheduled_job call in progress
    sched,            \* scheduler thread: the schedule library's jobs and the loop
    fired             \* per job, its last two firings: the "Running Scheduled
                      \* Job" line printed and, for the later of the two,
                      \* whether the error line followed

vars == <<studentsrecord, subject, singleRaises, now, agg, fmt, evt, job, sched,
          fired>>
store == <<studentsrecord, subject, singleRaises>>

\* ------------------------------------------------------------ record store
\* supabase.table(...).select(...).eq('Roll_No', roll_no).single().execute()
\* fault: the call fails (network, store error).  With no matching row the
\* build either raises or answers with no data.
Single(row, fault) ==
    IF fault THEN [raised |-> TRUE, data |-> <<>>]
    ELSE IF row = <<>>
         THEN [raised |-> singleRaises, data |-> <<>>]
         ELSE [raised |-> FALSE, data |-> row]

IdentityRow(roll_no) ==
    IF roll_no \in DOMAIN studentsrecord THEN studentsrecord[roll_no] ELSE <<>>

SubjectRow(i, roll_no) ==
    IF roll_no \in DOMAIN subject THEN subject[roll_no][i] ELSE <<>>

\* ------------------------------------------------------------ aggregator
\* column.count('_') of a key held split on '_'
CountUnderscore(column) == Len(column) - 1

\* CountItems without the date-column test: every column holding a mark counts
RECURSIVE CountItemsAnyColumn(_, _, _)
CountItemsAnyColumn(data, cols, acc) ==
    IF cols = {} THEN acc
    ELSE LET column == CHOOSE c \in cols : TRUE
             value == data[column]
             counted == value \in {"P", "A"}
         IN  CountItemsAnyColumn(data, cols \ {column},
                 [total |-> IF counted THEN acc.total + 1 ELSE acc.total,
                  present |-> IF counted /\ value = "P" THEN acc.present + 1
                              ELSE acc.present])

\* for column, value in response.data.items(): ...   (lines 66-71)
RECURSIVE CountItems(_, _, _)
CountItems(data, cols, acc) ==
    IF cols = {} THEN acc
    ELSE LET column == CHOOSE c \in cols : TRUE
             value == data[column]
             counted == CountUnderscore(column) = 2 /\ value \in {"P", "A"}
             total1 == IF counted THEN acc.total + 1 ELSE acc.total
             present1 == IF counted /\ value = "P" THEN acc.present + 1
                         ELSE acc.present
         IN  CountItems(data, cols \ {column},
                        [total |-> total1, present |-> present1])

\* name.endswith('_lab')
IsLab(i) == SUBJECT_TABLES[i][Len(SUBJECT_TABLES[i])] = "lab"

\* TableStep that puts today's entry in front of the earlier ones
TableStepPrepends(i, roll_no, faults, today_str, acc) ==
    LET response == Single(SubjectRow(i, roll_no), i \in faults)
    IN  IF response.raised THEN acc
        ELSE IF response.data = <<>> THEN acc
        ELSE LET c == CountItems(response.data, DOMAIN response.data,
                                 [total |-> acc.total, present |-> acc.present])
                 mark == Get(response.data, today_str)
                 entry == [subject |-> format_subject_name(SUBJECT_TABLES[i]).value,
                           status |-> mark]
             IN  [total |-> c.total, present |-> c.present,
                  todays_attendance |->
                      IF today_str \in DOMAIN response.data /\ mark \in {"P", "A"}
                      THEN <<entry>> \o acc.todays_attendance
                      ELSE acc.todays_attendance]

\* TableStep that leaves the lab tables out of the counts
TableStepTheoryOnly(i, roll_no, faults, today_str, acc) ==
    LET response == Single(SubjectRow(i, roll_no), i \in faults)
    IN  IF response.raised \/ response.data = <<>> THEN acc
        ELSE LET c == IF IsLab(i)
                      THEN [total |-> acc.total, present |-> acc.present]
                      ELSE CountItems(response.data, DOMAIN response.data,
                                      [total |-> acc.total, present |-> acc.present])
                 mark == Get(response.data, today_str)
                 entry == [subject |-> format_subject_name(SUBJECT_TABLES[i]).value,
                           status |-> mark]
             IN  [total |-> c.total, present |-> c.present,
                  todays_attendance |->
                      IF today_str \in DOMAIN response.data /\ mark \in {"P", "A"}
                      THEN Append(acc.todays_attendance, entry)
                      ELSE acc.todays_attendance]

\* one iteration of  for table in SUBJECT_TABLES  (lines 61-81)
TableStep(i, roll_no, faults, today_str, acc) ==
    LET response == Single(SubjectRow(i, roll_no), i \in faults)
    IN  IF response.raised THEN acc          \* except Exception: continue
        ELSE IF response.data = <<>> THEN acc
        ELSE LET c == CountItems(response.data, DOMAIN response.data,
                                 [total |-> acc.total, present |-> acc.present])
                 mark == Get(response.data, today_str)
                 entry == [subject |-> format_subject_name(SUBJECT_TABLES[i]).value,
                           status |-> mark]
             IN  [total |-> c.total, present |-> c.present,
                  todays_attendance |->
                      IF today_str \in DOMAIN response.data /\ mark \in {"P", "A"}
                      THEN Append(acc.todays_attendance, entry)
                      ELSE acc.todays_attendance]

RECURSIVE TableLoop(_, _, _, _, _)
TableLoop(i, roll_no, faults, today_str, acc) ==
    IF i > Len(SUBJECT_TABLES) THEN acc
    ELSE TableLoop(i + 1, roll_no, faults, today_str,
                   TableStep(i, roll_no, faults, today_str, acc))

\* get_student_data without the inner try/except: a subject query that raises
\* reaches the outer except and the whole aggregation answers with the error
get_student_data_NoInnerTry(roll_no, idFault, faults, t) ==
    LET student_info_res == Single(IdentityRow(roll_no), idFault)
        anyRaise == \E i \in TableIdx :
                        Single(SubjectRow(i, roll_no), i \in faults).raised
    IN  IF student_info_res.raised \/ anyRaise
        THEN [error |-> "An error occurred while fetching student data."]
        ELSE IF student_info_res.data = <<>>
        THEN [error |-> "Student not found in studentsrecord."]
        ELSE LET student_details == student_info_res.data
                 acc == TableLoop(1, roll_no, faults, strftime(t),
                                  [total |-> 0, present |-> 0,
                                   todays_attendance |-> <<>>])
             IN  [name |-> Get(student_details, "Name"),
                  whatsapp_no |-> Get(student_details, "whatsapp_no"),
                  present |-> acc.present,
                  total |-> acc.total,
                  todays_attendance |-> acc.todays_attendance]

\* get_student_data(roll_no).  idFault: the identity query fails; faults: the
\* subject tables whose query fails.
get_student_data(roll_no, idFault, faults, t) ==
    LET student_info_res == Single(IdentityRow(roll_no), idFault)
    IN  IF student_info_res.raised
        THEN [error |-> "An error occurred while fetching student data."]
        ELSE IF student_info_res.data = <<>>
        THEN [error |-> "Student not found in studentsrecord."]
        ELSE LET student_details == student_info_res.data
                 acc == TableLoop(1, roll_no, faults, strftime(t),
                                  [total |-> 0, present |-> 0,
                                   todays_attendance |-> <<>>])
             IN  [name |-> Get(student_details, "Name"),
                  whatsapp_no |-> Get(student_details, "whatsapp_no"),
                  present |-> acc.present,
                  total |-> acc.total,
                  todays_attendance |-> acc.todays_attendance]

\* student_data.get("error") is truthy
HasError(student_data) == "error" \in DOMAIN student_data

\* ------------------------------------------------------------ formatters
\* f"{x:.2f}" of x = n/d, held in hundredths (round half to even)
RoundHalfEven(n, d) ==
    LET q == n \div d
        r == n % d
    IN  IF 2 * r < d THEN q
        ELSE IF 2 * r > d THEN q + 1
        ELSE IF q % 2 = 0 THEN q ELSE q + 1

\* (n / d) * 100 as :.2f prints it, in hundredths.  n / 0 raises
\* ZeroDivisionError.  For d < 160 the float product is within 1e-12 of the
\* exact ratio and an exact tie (d a multiple of 32) is a binary fraction, so
\* the digits printed are those of the exact ratio rounded half to even.
Percent(n, d) ==
    IF d = 0 THEN [raised |-> TRUE, value |-> 0]
    ELSE [raised |-> FALSE, value |-> RoundHalfEven(n * 10000, d)]

\* format_morning_message without the  if total == 0  return
format_morning_message_NoZeroTest(data) ==
    LET present == data.present
        total == data.total
        current_perc == Percent(present, total)
        attend_all_perc == Percent(present + 4, total + 4)
        miss_all_perc == Percent(present, total + 4)
    IN  IF current_perc.raised
        THEN [kind |-> "ZeroDivisionError", name |-> data.name,
              divisions |-> 1, raised |-> TRUE]
        ELSE [kind |-> "morning", name |-> data.name,
              current_perc |-> current_perc.value,
              attend_all_perc |-> attend_all_perc.value,
              miss_all_perc |-> miss_all_perc.value,
              present |-> present, total |-> total,
              divisions |-> 3, raised |-> FALSE]

\* format_morning_message with the prediction made for 5 classes
format_morning_message_FiveClasses(data) ==
    LET present == data.present
        total == data.total
        current_perc == Percent(present, total)
        attend_all_perc == Percent(present + 5, total + 5)
        miss_all_perc == Percent(present, total + 5)
    IN  IF total = 0
        THEN [kind |-> "morning_welcome", name |-> data.name,
              divisions |-> 0, raised |-> FALSE]
        ELSE [kind |-> "morning", name |-> data.name,
              current_perc |-> current_perc.value,
              attend_all_perc |-> attend_all_perc.value,
              miss_all_perc |-> miss_all_perc.value,
              present |-> present, total |-> total,
              divisions |-> 3, raised |-> FALSE]

\* format_morning_message(data): the text, held as its variable parts.
\* divisions: the number of / evaluated; raised: an exception left the
\* function.
format_morning_message(data) ==
    LET present == data.present
        total == data.total
        current_perc == Percent(present, total)
        attend_all_perc == Percent(present + 4, total + 4)
        miss_all_perc == Percent(present, total + 4)
    IN  IF total = 0
        THEN [kind |-> "morning_welcome", name |-> data.name,
              divisions |-> 0, raised |-> FALSE]
        ELSE IF current_perc.raised
        THEN [kind |-> "ZeroDivisionError", name |-> data.name,
              divisions |-> 1, raised |-> TRUE]
        ELSE [kind |-> "morning", name |-> data.name,
              current_perc |-> current_perc.value,
              attend_all_perc |-> attend_all_perc.value,
              miss_all_perc |-> miss_all_perc.value,
              present |-> present, total |-> total,
              divisions |-> 3, raised |-> FALSE]

\* format_evening_message(data)
format_evening_message(data) ==
    LET present == data.present
        total == data.total
        current_perc == IF total > 0 THEN Percent(present, total)
                        ELSE [raised |-> FALSE, value |-> 0]
    IN  IF current_perc.raised
        THEN [kind |-> "ZeroDivisionError", name |-> data.name,
              divisions |-> 1, raised |-> TRUE]
        ELSE [kind |-> "evening", name |-> data.name,
              current_perc |-> current_perc.value,
              present |-> present, total |-> total,
              todays_attendance |-> data.todays_attendance,
              divisions |-> IF total > 0 THEN 1 ELSE 0, raised |-> FALSE]

\* ------------------------------------------------------------ notifier
\* send_whatsapp_notification without its try/except: a gateway error leaves
\* the notifier
send_whatsapp_notification_NoTry(whatsapp_no, message, gwFault) ==
    IF ~Truthy(whatsapp_no)
    THEN [to |-> whatsapp_no, body |-> message, submitted |-> FALSE,
          failed |-> FALSE, raised |-> FALSE]
    ELSE [to |-> whatsapp_no, body |-> message, submitted |-> TRUE,
          failed |-> gwFault, raised |-> gwFault]

\* send_whatsapp_notification without its  if not whatsapp_no: return
send_whatsapp_notification_NoAddressTest(whatsapp_no, message, gwFault) ==
    [to |-> whatsapp_no, body |-> message, submitted |-> TRUE,
     failed |-> gwFault, raised |-> FALSE]

\* send_whatsapp_notification(whatsapp_no, message).  gwFault: the gateway
\* call raises.  called: the notifier was entered; submitted: the gateway was
\* asked to deliver (twilio_client.messages.create was called); raised: an
\* exception leaves the notifier (never: the gateway call is in a try/except).
send_whatsapp_notification(whatsapp_no, message, gwFault) ==
    IF ~Truthy(whatsapp_no)
    THEN [to |-> whatsapp_no, body |-> message, submitted |-> FALSE,
          failed |-> FALSE, raised |-> FALSE]
    ELSE [to |-> whatsapp_no, body |-> message, submitted |-> TRUE,
          failed |-> gwFault, raised |-> FALSE]

\* ------------------------------------------------------------ webhooks
\* handle_new_student without the error test: the error dict reaches the
\* formatter, whose data['present'] raises
handle_new_student_NoErrorTest(payload, idFault, faults, gwFault, t) ==
    IF Get(payload, "type") = "INSERT"
    THEN LET record == IF "record" \in DOMAIN payload THEN payload["record"]
                       ELSE <<>>
             roll_no == Get(record, ColRoll)
         IN  IF Truthy(roll_no)
             THEN LET student_data == get_student_data(roll_no, idFault, faults, t)
                  IN  IF ~HasError(student_data)
                      THEN LET message == format_evening_message(student_data)
                               sent == send_whatsapp_notification(
                                           Get(student_data, "whatsapp_no"),
                                           message, gwFault)
                           IN  [status |-> IF message.raised \/ sent.raised
                                           THEN 500 ELSE 200,
                                fetched |-> TRUE, error |-> FALSE,
                                total |-> student_data.total,
                                calls |-> IF message.raised THEN <<>>
                                          ELSE <<sent>>]
                      ELSE [status |-> 500, fetched |-> TRUE, error |-> TRUE,
                            total |-> 0, calls |-> <<>>]
             ELSE [status |-> 200, fetched |-> FALSE, error |-> FALSE,
                   total |-> 0, calls |-> <<>>]
    ELSE [status |-> 200, fetched |-> FALSE, error |-> FALSE, total |-> 0,
          calls |-> <<>>]

\* handle_new_student handing the morning formatter's text to the notifier
handle_new_student_MorningText(payload, idFault, faults, gwFault, t) ==
    IF Get(payload, "type") = "INSERT"
    THEN LET record == IF "record" \in DOMAIN payload THEN payload["record"]
                       ELSE <<>>
             roll_no == Get(record, ColRoll)
         IN  IF Truthy(roll_no)
             THEN LET student_data == get_student_data(roll_no, idFault, faults, t)
                  IN  IF ~HasError(student_data)
                      THEN LET message == format_morning_message(student_data)
                               sent == send_whatsapp_notification(
                                           Get(student_data, "whatsapp_no"),
                                           message, gwFault)
                           IN  [status |-> IF message.raised \/ sent.raised
                                           THEN 500 ELSE 200,
                                fetched |-> TRUE, error |-> FALSE,
                                total |-> student_data.total,
                                calls |-> IF message.raised THEN <<>>
                                          ELSE <<sent>>]
                      ELSE [status |-> 200, fetched |-> TRUE, error |-> TRUE,
                            total |-> 0, calls |-> <<>>]
             ELSE [status |-> 200, fetched |-> FALSE, error |-> FALSE,
                   total |-> 0, calls |-> <<>>]
    ELSE [status |-> 200, fetched |-> FALSE, error |-> FALSE, total |-> 0,
          calls |-> <<>>]

\* handle_new_student with request.json = payload.  status 500 stands for an
\* exception that leaves the view function.
handle_new_student(payload, idFault, faults, gwFault, t) ==
    IF Get(payload, "type") = "INSERT"
    THEN LET record == IF "record" \in DOMAIN payload THEN payload["record"]
                       ELSE <<>>
             roll_no == Get(record, ColRoll)
         IN  IF Truthy(roll_no)
             THEN LET student_data == get_student_data(roll_no, idFault, faults, t)
                  IN  IF ~HasError(student_data)
                      THEN LET message == format_evening_message(student_data)
                               sent == send_whatsapp_notification(
                                           Get(student_data, "whatsapp_no"),
                                           message, gwFault)
                           IN  [status |-> IF message.raised \/ sent.raised
                                           THEN 500 ELSE 200,
                                fetched |-> TRUE, error |-> FALSE,
                                total |-> student_data.total,
                                calls |-> IF message.raised THEN <<>>
                                          ELSE <<sent>>]
                      ELSE [status |-> 200, fetched |-> TRUE, error |-> TRUE,
                            total |-> 0, calls |-> <<>>]
             ELSE [status |-> 200, fetched |-> FALSE, error |-> FALSE,
                   total |-> 0, calls |-> <<>>]
    ELSE [status |-> 200, fetched |-> FALSE, error |-> FALSE, total |-> 0,
          calls |-> <<>>]

\* handle_absent_alert as a level trigger: the old row is not looked at
handle_absent_alert_LevelTrigger(payload, lookupFault, gwFault, t) ==
    IF Get(payload, "type") = "UPDATE"
    THEN LET record == IF "record" \in DOMAIN payload THEN payload["record"]
                       ELSE <<>>
             today_str == strftime(t)
         IN  IF Get(record, today_str) = "A"
             THEN LET roll_no == Get(record, ColRoll)
                      table_name == IF "table" \in DOMAIN payload
                                    THEN payload["table"] ELSE NoneStr
                      subject_name == format_subject_name(table_name)
                      student_info_res == Single(IdentityRow(roll_no), lookupFault)
                  IN  IF subject_name.raised \/ student_info_res.raised
                      THEN [status |-> 500, calls |-> <<>>]
                      ELSE IF /\ student_info_res.data # <<>>
                              /\ Truthy(Get(student_info_res.data, "whatsapp_no"))
                      THEN LET sent == send_whatsapp_notification(
                                           student_info_res.data["whatsapp_no"],
                                           [kind |-> "absent_alert",
                                            subject |-> subject_name.value],
                                           gwFault)
                           IN  [status |-> IF sent.raised THEN 500 ELSE 200,
                                calls |-> <<sent>>]
                      ELSE [status |-> 200, calls |-> <<>>]
             ELSE [status |-> 200, calls |-> <<>>]
    ELSE [status |-> 200, calls |-> <<>>]

\* handle_absent_alert with request.json = payload.  lookupFault: the
\* studentsrecord query fails.
handle_absent_alert(payload, lookupFault, gwFault, t) ==
    IF Get(payload, "type") = "UPDATE"
    THEN LET record == IF "record" \in DOMAIN payload THEN payload["record"]
                       ELSE <<>>
             old_record == IF "old_record" \in DOMAIN payload
                           THEN payload["old_record"] ELSE <<>>
             today_str == strftime(t)
         IN  IF Get(record, today_str) = "A" /\ Get(old_record, today_str) # "A"
             THEN LET roll_no == Get(record, ColRoll)
                      table_name == IF "table" \in DOMAIN payload
                                    THEN payload["table"] ELSE NoneStr
                      subject_name == format_subject_name(table_name)
                      student_info_res == Single(IdentityRow(roll_no), lookupFault)
                  IN  IF subject_name.raised \/ student_info_res.raised
                      THEN [status |-> 500, calls |-> <<>>]
                      ELSE IF /\ student_info_res.data # <<>>
                              /\ Truthy(Get(student_info_res.data, "whatsapp_no"))
                      THEN LET sent == send_whatsapp_notification(
                                           student_info_res.data["whatsapp_no"],
                                           [kind |-> "absent_alert",
                                            subject |-> subject_name.value],
                                           gwFault)
                           IN  [status |-> IF sent.raised THEN 500 ELSE 200,
                                calls |-> <<sent>>]
                      ELSE [status |-> 200, calls |-> <<>>]
             ELSE [status |-> 200, calls |-> <<>>]
    ELSE [status |-> 200, calls |-> <<>>]

\* ------------------------------------------------------------ scheduled job
\* message_formatter(student_data)
Format(message_formatter, data) ==
    IF message_formatter = "format_morning_message"
    THEN format_morning_message(data)
    ELSE format_evening_message(data)

\* response.data of select('Roll_No').not_.is_('whatsapp_no', 'null'): the
\* identity rows with a non-null address, in the store's order
ListStudents ==
    SelectSeq([i \in 1..NumRolls |-> RollName[i]],
              LAMBDA r : studentsrecord[r] # <<>> /\ studentsrecord[r].whatsapp_no # NULL)

\* the loop body without the total > 0 test
JobBodyNoTotalTest(message_formatter, roll_no, idFault, faults, gwFault, t) ==
    LET student_data == get_student_data(roll_no, idFault, faults, t)
    IN  IF ~HasError(student_data)
        THEN LET message == Format(message_formatter, student_data)
                 sent == send_whatsapp_notification(
                             student_data.whatsapp_no, message, gwFault)
             IN  [roll |-> roll_no, idFault |-> idFault, faults |-> faults,
                  error |-> FALSE, total |-> student_data.total,
                  calls |-> IF message.raised THEN <<>> ELSE <<sent>>,
                  slept |-> ~message.raised /\ ~sent.raised,
                  raised |-> message.raised \/ sent.raised]
        ELSE [roll |-> roll_no, idFault |-> idFault, faults |-> faults,
              error |-> TRUE, total |-> 0,
              calls |-> <<>>, slept |-> FALSE, raised |-> FALSE]

\* the loop body sending a second time when the gateway failed
JobBodyRetries(message_formatter, roll_no, idFault, faults, gwFault, t) ==
    LET student_data == get_student_data(roll_no, idFault, faults, t)
    IN  IF ~HasError(student_data) /\ student_data.total > 0
        THEN LET message == Format(message_formatter, student_data)
                 sent == send_whatsapp_notification(
                             student_data.whatsapp_no, message, gwFault)
             IN  [roll |-> roll_no, idFault |-> idFault, faults |-> faults,
                  error |-> FALSE, total |-> student_data.total,
                  calls |-> IF message.raised THEN <<>>
                            ELSE IF sent.failed THEN <<sent, sent>>
                            ELSE <<sent>>,
                  slept |-> ~message.raised /\ ~sent.raised,
                  raised |-> message.raised \/ sent.raised]
        ELSE [roll |-> roll_no, idFault |-> idFault, faults |-> faults,
              error |-> HasError(student_data), total |-> 0,
              calls |-> <<>>, slept |-> FALSE, raised |-> FALSE]

\* the loop body with time.sleep(1) moved out of the if: every recipient paces
JobBodyAlwaysSleeps(message_formatter, roll_no, idFault, faults, gwFault, t) ==
    LET student_data == get_student_data(roll_no, idFault, faults, t)
    IN  IF ~HasError(student_data) /\ student_data.total > 0
        THEN LET message == Format(message_formatter, student_data)
                 sent == send_whatsapp_notification(
                             student_data.whatsapp_no, message, gwFault)
             IN  [roll |-> roll_no, idFault |-> idFault, faults |-> faults,
                  error |-> FALSE, total |-> student_data.total,
                  calls |-> IF message.raised THEN <<>> ELSE <<sent>>,
                  slept |-> ~message.raised /\ ~sent.raised,
                  raised |-> message.raised \/ sent.raised]
        ELSE [roll |-> roll_no, idFault |-> idFault, faults |-> faults,
              error |-> HasError(student_data), total |-> 0,
              calls |-> <<>>, slept |-> TRUE, raised |-> FALSE]

\* one iteration of  for student in students  (lines 211-217): what it did
\* for roll_no.  slept: time.sleep(1) was reached; raised: an exception left
\* the body.
JobBody(message_formatter, roll_no, idFault, faults, gwFault, t) ==
    LET student_data == get_student_data(roll_no, idFault, faults, t)
    IN  IF ~HasError(student_data) /\ student_data.total > 0
        THEN LET message == Format(message_formatter, student_data)
                 sent == send_whatsapp_notification(
                             student_data.whatsapp_no, message, gwFault)
             IN  [roll |-> roll_no, idFault |-> idFault, faults |-> faults,
                  error |-> FALSE, total |-> student_data.total,
                  calls |-> IF message.raised THEN <<>> ELSE <<sent>>,
                  slept |-> ~message.raised /\ ~sent.raised,
                  raised |-> message.raised \/ sent.raised]
        ELSE [roll |-> roll_no, idFault |-> idFault, faults |-> faults,
              error |-> HasError(student_data), total |-> 0,
              calls |-> <<>>, slept |-> FALSE, raised |-> FALSE]

\* the error line (line 219, or the traceback of an uncaught exception)
\* follows the firing's line
ErrorLine(log) ==
    IF log = <<>> THEN log ELSE [log EXCEPT ![Len(log)].error = TRUE]

\* run_scheduled_job without its try/except: the exception leaves the job,
\* run_pending and the while loop of run_scheduler
JobListNoTry ==
    /\ job.pc = "called"
    /\ \E listFault \in BOOLEAN :
           /\ job' = IF listFault
                     THEN [job EXCEPT !.pc = "raised", !.crashed = TRUE]
                     ELSE [job EXCEPT !.pc = "loop", !.students = ListStudents,
                                      !.idx = 1, !.listed = TRUE]
           /\ fired' = IF listFault
                       THEN [fired EXCEPT ![job.formatter] = ErrorLine(@)]
                       ELSE fired
    /\ UNCHANGED <<store, fmt, now, agg, evt, sched>>

\* run_scheduled_job, lines 205-210: the listing query.  An exception is
\* caught at line 218 and the job returns.
JobList ==
    /\ job.pc = "called"
    /\ \E listFault \in BOOLEAN :
           /\ job' = IF listFault
                     THEN [job EXCEPT !.pc = "returned", !.crashed = TRUE]
                     ELSE [job EXCEPT !.pc = "loop", !.students = ListStudents,
                                      !.idx = 1, !.listed = TRUE]
           /\ fired' = IF listFault
                       THEN [fired EXCEPT ![job.formatter] = ErrorLine(@)]
                       ELSE fired
    /\ UNCHANGED <<store, fmt, now, agg, evt, sched>>

\* run_scheduled_job, lines 211-217: the next recipient
JobRecipient ==
    /\ job.pc = "loop"
    /\ job.idx <= Len(job.students)
    /\ \E idFault \in BOOLEAN, faults \in {{}, TableIdx}, gwFault \in BOOLEAN :
           LET entry == JobBody(job.formatter, job.students[job.idx],
                                idFault, faults, gwFault, now)
           IN  /\ job' = IF entry.raised
                         THEN [job EXCEPT !.pc = "returned", !.crashed = TRUE,
                                          !.log = Append(@, entry)]
                         ELSE [job EXCEPT !.idx = @ + 1, !.log = Append(@, entry)]
               /\ fired' = IF entry.raised
                           THEN [fired EXCEPT ![job.formatter] = ErrorLine(@)]
                           ELSE fired
    /\ UNCHANGED <<store, fmt, now, agg, evt, sched>>

\* JobReturn clearing the addresses of the students it has notified
JobReturnWrites ==
    /\ job.pc = "loop"
    /\ job.idx > Len(job.students)
    /\ job' = [job EXCEPT !.pc = "returned"]
    /\ studentsrecord' =
           [r \in DOMAIN studentsrecord |->
               IF \E k \in 1..Len(job.log) : job.log[k].roll = r
               THEN [studentsrecord[r] EXCEPT !.whatsapp_no = NULL]
               ELSE studentsrecord[r]]
    /\ UNCHANGED <<subject, singleRaises, fmt, now, agg, evt, sched, fired>>

\* run_scheduled_job: the loop is over, the function returns
JobReturn ==
    /\ job.pc = "loop"
    /\ job.idx > Len(job.students)
    /\ job' = [job EXCEPT !.pc = "returned"]
    /\ UNCHANGED <<store, fmt, now, agg, evt, sched, fired>>

\* a call of run_scheduled_job(message_formatter) about to start
JobCall(message_formatter) ==
    [pc |-> "called", formatter |-> message_formatter, students |-> <<>>,
     idx |-> 0, log |-> <<>>, listed |-> FALSE, crashed |-> FALSE]

\* ------------------------------------------------------------ scheduler loop
\* The clock counts poll ticks; a day has TicksPerDay of them.  07:00 and
\* 16:00 are the ticks MorningAt and EveningAt of the day.
MorningAt == 1
EveningAt == 2

Jobs == <<"format_morning_message", "format_evening_message">>
AtTime(j) == IF j = "format_morning_message" THEN MorningAt ELSE EveningAt

Abs(t) == t.day * TicksPerDay + t.slot
DayOf(a) == a \div TicksPerDay

\* a scheduling rule that never moves past today's trigger time
NextAtToday(t, at) == t.day * TicksPerDay + at

\* schedule's every().day.at(at).do(...): at registration and after each run
\* the job's next_run is the first instant after t whose time of day is at
NextAt(t, at) ==
    IF t.slot < at THEN t.day * TicksPerDay + at
    ELSE (t.day + 1) * TicksPerDay + at

\* should_run true only at the very tick of next_run: a job whose time went
\* by while the loop was busy is not run
RunnableOnTime ==
    LET due == SelectSeq(Jobs, LAMBDA j : Abs(now) = sched.next_run[j])
    IN  IF Len(due) = 2 /\ sched.next_run[due[2]] < sched.next_run[due[1]]
        THEN <<due[2], due[1]>>
        ELSE due

\* sorted(job for job in jobs if job.should_run): the due jobs by next_run
Runnable ==
    LET due == SelectSeq(Jobs, LAMBDA j : Abs(now) >= sched.next_run[j])
    IN  IF Len(due) = 2 /\ sched.next_run[due[2]] < sched.next_run[due[1]]
        THEN <<due[2], due[1]>>
        ELSE due

NoneFired == [j \in {Jobs[1], Jobs[2]} |-> <<>>]

\* the last two lines of log, line appended
LastTwo(log, line) ==
    IF log = <<>> THEN <<line>>
    ELSE <<[log[Len(log)] EXCEPT !.error = FALSE], line>>

\* run_scheduler, lines 223-224: both jobs registered at process start
Registered(t) ==
    [pc |-> "poll",
     next_run |-> [j \in {Jobs[1], Jobs[2]} |-> NextAt(t, AtTime(j))],
     pending |-> <<>>]

\* schedule.run_pending(), line 227: collect the due jobs
RunPending ==
    /\ sched.pc = "poll"
    /\ sched' = [sched EXCEPT !.pending = Runnable,
                              !.pc = IF Runnable = <<>> THEN "sleep" ELSE "run"]
    /\ UNCHANGED <<store, fmt, now, agg, evt, job, fired>>

\* StartJob waiting for the request handling to be idle
StartJobAfterRequests ==
    /\ sched.pc = "run"
    /\ sched.pending # <<>>
    /\ job.pc = "idle"
    /\ evt.handler = "idle"
    /\ job' = JobCall(Head(sched.pending))
    /\ fired' = [fired EXCEPT ![Head(sched.pending)] =
                     LastTwo(@, [job |-> Head(sched.pending),
                                 due |-> sched.next_run[Head(sched.pending)],
                                 start |-> Abs(now), error |-> FALSE])]
    /\ UNCHANGED <<store, fmt, now, agg, evt, sched>>

\* run_pending calls the next due job: run_scheduled_job(formatter) prints
\* its "Running Scheduled Job" line (line 206)
StartJob ==
    /\ sched.pc = "run"
    /\ sched.pending # <<>>
    /\ job.pc = "idle"
    /\ job' = JobCall(Head(sched.pending))
    /\ fired' = [fired EXCEPT ![Head(sched.pending)] =
                     LastTwo(@, [job |-> Head(sched.pending),
                                 due |-> sched.next_run[Head(sched.pending)],
                                 start |-> Abs(now), error |-> FALSE])]
    /\ UNCHANGED <<store, fmt, now, agg, evt, sched>>

\* the job has returned: schedule sets its next run; after the last due job
\* run_pending returns and the loop goes to time.sleep(60)
FinishJob ==
    /\ sched.pc = "run"
    /\ job.pc = "returned"
    /\ sched' = [sched EXCEPT
                    !.next_run[Head(sched.pending)] =
                        NextAt(now, AtTime(Head(sched.pending))),
                    !.pending = Tail(@),
                    !.pc = IF Tail(sched.pending) = <<>> THEN "sleep" ELSE "run"]
    /\ job' = [pc |-> "idle"]
    /\ UNCHANGED <<store, fmt, now, agg, evt, fired>>

CanTick == Abs(now) < (MaxDay + 1) * TicksPerDay - 1
Tick(t) == IF t.slot = TicksPerDay - 1 THEN [day |-> t.day + 1, slot |-> 0]
           ELSE [day |-> t.day, slot |-> t.slot + 1]

\* time.sleep(60), line 228.  The clock of the model stops at the last tick
\* of day MaxDay; the loop goes on polling.
Sleep ==
    /\ sched.pc = "sleep"
    /\ now' = IF CanTick THEN Tick(now) ELSE now
    /\ sched' = [sched EXCEPT !.pc = "poll"]
    /\ UNCHANGED <<store, fmt, agg, evt, job, fired>>

\* time.sleep(60) returns a poll tick late: the process was not running
Oversleep ==
    /\ sched.pc = "sleep"
    /\ CanTick
    /\ now' = Tick(now)
    /\ UNCHANGED <<store, fmt, agg, evt, job, sched, fired>>

\* a poll tick goes by while the loop is busy in a job: many recipients, a
\* store or gateway call that does not answer
Busy ==
    /\ sched.pc = "run"
    /\ job.pc \in {"called", "loop"}
    /\ CanTick
    /\ now' = Tick(now)
    /\ UNCHANGED <<store, fmt, agg, evt, job, sched, fired>>

\* ------------------------------------------------------------ store contents

Theory1 == 1     \* index of a theory table in SUBJECT_TABLES
Lab1 == 3        \* index of a lab table in SUBJECT_TABLES

\* a subject row of roll: Roll_No, Section = 'A', the old date column holding
\* old, and the day-0 date column holding tv unless tv = "MISSING"
MakeRow(roll, tv, old) ==
    [c \in {ColRoll, ColSection, OldDate} \cup
           (IF tv = "MISSING" THEN {} ELSE {strftime([day |-> 0])}) |->
        CASE c = ColRoll -> roll
          [] c = ColSection -> "A"
          [] c = OldDate -> old
          [] OTHER -> tv]

BroadRows(roll) ==
    {<<>>} \cup {MakeRow(roll, tv, old) :
                    tv \in {"MISSING", "P", "A", "L"}, old \in {"P", NULL}}

\* the dates of ten earlier class days
Term == <<"15", "16", "17", "18", "19", "20", "21", "22", "23", "24">>

\* a subject row of roll holding mark in each of the Term date columns
TermRow(roll, mark) ==
    [c \in {ColRoll, ColSection} \cup
           {<<Term[k], "01", "2025">> : k \in 1..Len(Term)} |->
        CASE c = ColRoll -> roll
          [] c = ColSection -> "A"
          [] OTHER -> mark]

Identity(name, whatsapp_no) == [Name |-> name, whatsapp_no |-> whatsapp_no]

NoRows == [i \in TableIdx |-> <<>>]

\* ------------------------------------------------------------ aggregation alone
InitAgg ==
    /\ \E id \in {<<>>, Identity("N1", "+911")} :
           studentsrecord = [r \in Rolls |-> IF r = "R1" THEN id ELSE <<>>]
    /\ \E rows \in [ActiveTables -> BroadRows("R1")] :
           subject = [r \in Rolls |->
                         IF r = "R1"
                         THEN [i \in TableIdx |->
                                  IF i \in ActiveTables THEN rows[i] ELSE <<>>]
                         ELSE NoRows]
    /\ singleRaises \in BOOLEAN
    /\ now = [day |-> 0, slot |-> 0]
    /\ agg = [called |-> FALSE]
    /\ evt = [handler |-> "idle"]
    /\ job = [pc |-> "idle"]
    /\ sched = [pc |-> "off"]
    /\ fired = NoneFired
    /\ fmt = [called |-> FALSE]

Aggregate ==
    /\ ~agg.called
    /\ \E idFault \in BOOLEAN, faults \in SUBSET ActiveTables :
           agg' = [called |-> TRUE, roll |-> "R1", idFault |-> idFault,
                   faults |-> faults,
                   out |-> get_student_data("R1", idFault, faults, now)]
    /\ UNCHANGED <<store, fmt, now, evt, job, sched, fired>>

NextAgg == Aggregate

SpecAgg == InitAgg /\ [][NextAgg]_vars

\* ------------------------------------------------------------ claims on the aggregator
\* the cells (table, column) of roll's rows in the tables T, read without a
\* fault, whose column key has exactly two separators and whose value is one
\* of marks
CellsOf(roll, faults, T, marks) ==
    {x \in UNION {{<<i, c>> : c \in DOMAIN subject[roll][i]} :
                      i \in {j \in T : j \notin faults /\ subject[roll][j] # <<>>}} :
         Len(x[2]) = 3 /\ subject[roll][x[1]][x[2]] \in marks}

\* the subject tables whose query answered with a row in the recorded call
Fetched(i) == i \notin agg.faults /\ subject[agg.roll][i] # <<>>

MarkCells(T, marks) == CellsOf(agg.roll, agg.faults, T, marks)

Summarised == agg.called /\ ~HasError(agg.out)
TheoryTables == {i \in TableIdx : ~IsLab(i)}
LabTables == {i \in TableIdx : IsLab(i)}

\* C9: total is the number of dated columns (two separators) of the fetched
\* rows holding exactly 'P' or 'A', present the number of those holding 'P',
\* so 0 <= present <= total; nothing else is counted.
C9_CountsInvariant ==
    Summarised =>
        /\ agg.out.total = Cardinality(MarkCells(TableIdx, {"P", "A"}))
        /\ agg.out.present = Cardinality(MarkCells(TableIdx, {"P"}))
        /\ 0 <= agg.out.present
        /\ agg.out.present <= agg.out.total

\* a fetched row with a non-date column holding 'A' and a dated column holding
\* an unrecognized value, next to counted marks of both kinds
C9_Witness ==
    /\ Summarised
    /\ agg.out.total >= 2
    /\ 0 < agg.out.present /\ agg.out.present < agg.out.total
    /\ \E i \in TableIdx :
           /\ Fetched(i)
           /\ subject[agg.roll][i][ColSection] = "A"
           /\ \E c \in DOMAIN subject[agg.roll][i] :
                  Len(c) = 3 /\ subject[agg.roll][i][c] \in {"L", NULL}

\* the display names of the fetched tables that hold a mark today, as a set
TodaySubjects ==
    {format_subject_name(SUBJECT_TABLES[i]).value :
        i \in {j \in TableIdx :
                  /\ Fetched(j)
                  /\ strftime(now) \in DOMAIN subject[agg.roll][j]
                  /\ subject[agg.roll][j][strftime(now)] \in {"P", "A"}}}

\* C10: with the identity found, a summary is returned whatever subset of the
\* subject queries fails or finds no row; those sources add nothing and have
\* no entry in todays_attendance, the later ones are still read; the error
\* outcome happens only when the identity lookup fails.
C10_SourceIsolation ==
    agg.called =>
        /\ HasError(agg.out) <=>
               (agg.idFault \/ studentsrecord[agg.roll] = <<>>)
        /\ ~HasError(agg.out) =>
               /\ {agg.out.todays_attendance[k].subject :
                      k \in 1..Len(agg.out.todays_attendance)} = TodaySubjects
               /\ agg.out.total =
                      Cardinality(MarkCells({i \in TableIdx : i \notin agg.faults},
                                            {"P", "A"}))

\* a failing source that holds marks, a source with no row, and a later source
\* that is read and reported
C10_Witness ==
    /\ Summarised
    /\ \E j \in agg.faults, k \in TableIdx \ agg.faults, i \in TableIdx :
           /\ subject[agg.roll][j] # <<>>
           /\ Get(subject[agg.roll][j], strftime(now)) = "A"
           /\ subject[agg.roll][k] = <<>>
           /\ j < i /\ k < i /\ Fetched(i)
           /\ Get(subject[agg.roll][i], strftime(now)) = "P"
    /\ Len(agg.out.todays_attendance) = 1

Summary(present, total) ==
    [name |-> "N1", whatsapp_no |-> "+911", present |-> present,
     total |-> total, todays_attendance |-> <<>>]

Summaries ==
    {Summary(x[1], x[2]) :
        x \in {y \in (0..MaxTotal) \X (0..MaxTotal) : y[1] <= y[2]}}

InitFmt ==
    /\ studentsrecord = [r \in Rolls |-> <<>>]
    /\ subject = [r \in Rolls |-> NoRows]
    /\ singleRaises \in BOOLEAN
    /\ now = [day |-> 0, slot |-> 0]
    /\ agg = [called |-> FALSE]
    /\ \E data \in Summaries : fmt = [called |-> FALSE, data |-> data]
    /\ evt = [handler |-> "idle"]
    /\ job = [pc |-> "idle"]
    /\ sched = [pc |-> "off"]
    /\ fired = NoneFired

FormatMorning ==
    /\ ~fmt.called
    /\ fmt' = [called |-> TRUE, formatter |-> "format_morning_message",
               data |-> fmt.data, out |-> format_morning_message(fmt.data)]
    /\ UNCHANGED <<store, now, agg, evt, job, sched, fired>>

FormatEvening ==
    /\ ~fmt.called
    /\ fmt' = [called |-> TRUE, formatter |-> "format_evening_message",
               data |-> fmt.data, out |-> format_evening_message(fmt.data)]
    /\ UNCHANGED <<store, now, agg, evt, job, sched, fired>>

NextFmt == FormatMorning \/ FormatEvening

SpecFmt == InitFmt /\ [][NextFmt]_vars

\* ------------------------------------------------------------ claims on the formatters
\* C13: for a summary with total = 0 the morning formatter returns the fixed
\* welcome text and the evening formatter reports 0.00%; neither evaluates a
\* division, and no formatter call ends in a division by zero.
C13_NoDivisionByZero ==
    fmt.called =>
        /\ ~fmt.out.raised
        /\ fmt.data.total = 0 =>
               /\ fmt.out.divisions = 0
               /\ fmt.formatter = "format_morning_message" =>
                      fmt.out = [kind |-> "morning_welcome", name |-> fmt.data.name,
                                 divisions |-> 0, raised |-> FALSE]
               /\ fmt.formatter = "format_evening_message" =>
                      /\ fmt.out.kind = "evening"
                      /\ fmt.out.current_perc = 0
                      /\ fmt.out.present = 0 /\ fmt.out.total = 0

\* the morning formatter applied to the summary of a student with no marks
C13_Witness ==
    /\ fmt.called
    /\ fmt.formatter = "format_morning_message"
    /\ fmt.data.total = 0 /\ fmt.data.present = 0
    /\ fmt.out.kind = "morning_welcome"

\* v, in hundredths, is (n / d) * 100 rounded to the nearest hundredth
Nearest(v, n, d) ==
    LET diff == v * d - n * 10000
    IN  2 * (IF diff < 0 THEN -diff ELSE diff) <= d

\* C14: for 0 <= present <= total, total > 0, the morning text reports
\* present/total*100, (present+4)/(total+4)*100 and present/(total+4)*100,
\* each rounded to 2 decimal places, the third <= the first <= the second;
\* 18 of 20 gives 90.00, 91.67 and 75.00.
C14_MorningProjection ==
    ( /\ fmt.called
      /\ fmt.formatter = "format_morning_message"
      /\ fmt.data.total > 0 ) =>
        LET present == fmt.data.present
            total == fmt.data.total
            out == fmt.out
        IN  /\ out.kind = "morning"
            /\ out.present = present /\ out.total = total
            /\ Nearest(out.current_perc, present, total)
            /\ Nearest(out.attend_all_perc, present + 4, total + 4)
            /\ Nearest(out.miss_all_perc, present, total + 4)
            /\ out.miss_all_perc <= out.current_perc
            /\ out.current_perc <= out.attend_all_perc
            /\ (present = 18 /\ total = 20) =>
                   /\ out.current_perc = 9000
                   /\ out.attend_all_perc = 9167
                   /\ out.miss_all_perc = 7500

\* the morning text for 18 of 20
C14_Witness ==
    /\ fmt.called
    /\ fmt.formatter = "format_morning_message"
    /\ fmt.data.present = 18 /\ fmt.data.total = 20
    /\ fmt.out.kind = "morning"
    /\ fmt.out.current_perc = 9000
    /\ fmt.out.attend_all_perc = 9167

\* the tables, in the order of SUBJECT_TABLES, whose fetched row holds a
\* recognized mark in today's column
TodayTables ==
    SelectSeq([i \in 1..Len(SUBJECT_TABLES) |-> i],
              LAMBDA j : /\ Fetched(j)
                         /\ strftime(now) \in DOMAIN subject[agg.roll][j]
                         /\ subject[agg.roll][j][strftime(now)] \in {"P", "A"})

\* C18: todays_attendance holds one entry (display name of the table, mark)
\* for exactly the tables whose fetched row has 'P' or 'A' in today's column,
\* in the order of SUBJECT_TABLES and without duplicates; a table whose row
\* lacks today's column or holds another value there has no entry.
C18_TodaysMarksInOrder ==
    Summarised =>
        LET today == agg.out.todays_attendance
        IN  /\ Len(today) = Len(TodayTables)
            /\ \A k \in 1..Len(today) :
                   /\ today[k].subject =
                          format_subject_name(SUBJECT_TABLES[TodayTables[k]]).value
                   /\ today[k].status =
                          subject[agg.roll][TodayTables[k]][strftime(now)]
                   /\ \A n \in 1..Len(today) :
                          today[n].subject = today[k].subject => n = k
            /\ \A k \in 1..(Len(TodayTables) - 1) :
                   TodayTables[k] < TodayTables[k + 1]

\* entries for the first and the third table, the second one fetched with an
\* unrecognized value today
C18_Witness ==
    /\ Summarised
    /\ TodayTables = <<1, 3>>
    /\ Fetched(2)
    /\ Get(subject[agg.roll][2], strftime(now)) = "L"
    /\ agg.out.todays_attendance =
           <<[subject |-> format_subject_name(SUBJECT_TABLES[1]).value,
              status |-> subject[agg.roll][1][strftime(now)]],
             [subject |-> format_subject_name(SUBJECT_TABLES[3]).value,
              status |-> subject[agg.roll][3][strftime(now)]]>>
    /\ agg.out.todays_attendance[1].status # agg.out.todays_attendance[2].status

\* ------------------------------------------------------------ the two webhooks
\* rows carried by change events: Roll_No (or none), the day-0 date column and
\* the old date column
EventRowOn(day, roll, tv, old) ==
    [c \in (IF roll = NULL THEN {} ELSE {ColRoll}) \cup {OldDate} \cup
           (IF tv = "MISSING" THEN {} ELSE {strftime([day |-> day])}) |->
        CASE c = ColRoll -> roll
          [] c = OldDate -> old
          [] OTHER -> tv]

EventRow(roll, tv, old) == EventRowOn(0, roll, tv, old)

EventRows ==
    {EventRow(roll, tv, old) :
        roll \in Rolls \cup {NULL}, tv \in {"MISSING", "P", "A"}, old \in {"P", "A"}}

\* a JSON body holding the keys `keys` only
Payload(keys, type, table, record, old_record) ==
    [k \in keys |->
        CASE k = "type" -> type
          [] k = "table" -> table
          [] k = "record" -> record
          [] OTHER -> old_record]

Types == {"INSERT", "UPDATE"}

InitEvt ==
    /\ \E id \in {<<>>, Identity("N1", "+911"), Identity("N1", NULL),
                  Identity("N1", "")} :
           studentsrecord = [r \in Rolls |-> IF r = "R1" THEN id ELSE <<>>]
    /\ \E row \in {<<>>, MakeRow("R1", "A", "P"), MakeRow("R1", "L", NULL)},
          term \in {<<>>, TermRow("R1", "P")} :
           subject = [r \in Rolls |->
                         IF r = "R1"
                         THEN [i \in TableIdx |->
                                  IF i = NumTables THEN row
                                  ELSE IF i = Theory1 THEN term ELSE <<>>]
                         ELSE NoRows]
    /\ singleRaises \in BOOLEAN
    /\ now = [day |-> 0, slot |-> 0]
    /\ agg = [called |-> FALSE]
    /\ evt = [handler |-> "idle"]
    /\ job = [pc |-> "idle"]
    /\ sched = [pc |-> "off"]
    /\ fired = NoneFired
    /\ fmt = [called |-> FALSE]

\* POST /new-student-webhook
NewStudentWebhook ==
    /\ evt.handler = "idle"
    /\ \E keys \in SUBSET {"type", "table", "record"}, type \in Types,
          record \in EventRows,
          idFault \in BOOLEAN, faults \in {{}, {Theory1}, {NumTables}},
          gwFault \in BOOLEAN :
           LET payload == Payload(keys, type, <<"studentsrecord">>, record, <<>>)
           IN  evt' = [handler |-> "new_student", payload |-> payload,
                       idFault |-> idFault, faults |-> faults,
                       gwFault |-> gwFault,
                       res |-> handle_new_student(payload, idFault, faults,
                                                  gwFault, now)]
    /\ UNCHANGED <<store, fmt, now, agg, job, sched, fired>>

\* POST /absent-alert-webhook
AbsentAlertWebhook ==
    /\ evt.handler = "idle"
    /\ \E keys \in SUBSET {"type", "table", "record", "old_record"},
          type \in Types, record \in EventRows,
          old_record \in {r \in EventRows : Get(r, ColRoll) = "R1"},
          lookupFault \in BOOLEAN, gwFault \in BOOLEAN :
           LET payload == Payload(keys, type, SUBJECT_TABLES[NumTables], record,
                                  old_record)
           IN  evt' = [handler |-> "absent_alert", payload |-> payload,
                       lookupFault |-> lookupFault, gwFault |-> gwFault,
                       res |-> handle_absent_alert(payload, lookupFault,
                                                   gwFault, now)]
    /\ UNCHANGED <<store, fmt, now, agg, job, sched, fired>>

\* the response has gone out; the next request can be taken
ReturnResponse ==
    /\ evt.handler # "idle"
    /\ evt' = [handler |-> "idle"]
    /\ UNCHANGED <<store, fmt, now, agg, job, sched, fired>>

NextEvt == NewStudentWebhook \/ AbsentAlertWebhook \/ ReturnResponse

SpecEvt == InitEvt /\ [][NextEvt]_vars

\* ------------------------------------------------------------ claims on the webhooks
EvRecord == IF "record" \in DOMAIN evt.payload THEN evt.payload["record"] ELSE <<>>
EvOldRecord ==
    IF "old_record" \in DOMAIN evt.payload THEN evt.payload["old_record"] ELSE <<>>
EvRoll == Get(EvRecord, ColRoll)
EvToday == strftime(now)
\* the gateway submissions made while answering the current event
EvSubmits == {k \in 1..Len(evt.res.calls) : evt.res.calls[k].submitted}

\* C1: an absence alert is attempted only for an UPDATE whose new row holds
\* 'A' in today's column while the old row does not; never when today's
\* column is the same in both rows; at most once per event; and the P -> A
\* transition of a student with an address does cause the alert.
C1_EdgeTrigger ==
    evt.handler = "absent_alert" =>
        /\ Len(evt.res.calls) <= 1
        /\ evt.res.calls # <<>> =>
               /\ Get(evt.payload, "type") = "UPDATE"
               /\ Get(EvRecord, EvToday) = "A"
               /\ Get(EvOldRecord, EvToday) # "A"
        /\ Get(EvRecord, EvToday) = Get(EvOldRecord, EvToday) => evt.res.calls = <<>>
        /\ ( /\ Get(evt.payload, "type") = "UPDATE"
             /\ Get(EvRecord, EvToday) = "A"
             /\ Get(EvOldRecord, EvToday) = "P"
             /\ "table" \in DOMAIN evt.payload
             /\ ~evt.lookupFault
             /\ EvRoll \in Rolls
             /\ studentsrecord[EvRoll] # <<>>
             /\ Truthy(studentsrecord[EvRoll].whatsapp_no) )
           => Cardinality(EvSubmits) = 1

\* the transition P -> A on today's column, with another column changing too
C1_Witness ==
    /\ evt.handler = "absent_alert"
    /\ Get(EvOldRecord, EvToday) = "P"
    /\ Get(EvRecord, EvToday) = "A"
    /\ Get(EvOldRecord, OldDate) # Get(EvRecord, OldDate)
    /\ Cardinality(EvSubmits) = 1
    /\ evt.res.calls[1].to = "+911"
    /\ evt.res.calls[1].body.kind = "absent_alert"

\* C2: both webhooks answer 200 {"status":"received"} for every event,
\* whatever happens inside.
C2_AlwaysReceived ==
    evt.handler # "idle" => evt.res.status = 200

\* the identity lookup of the aggregation started by the current event fails
EvIdentityFails == evt.idFault \/ IdentityRow(EvRoll) = <<>>

EvIsRegistration ==
    /\ evt.handler = "new_student"
    /\ Get(evt.payload, "type") = "INSERT"
    /\ Truthy(EvRoll)

\* C3 as stated: an aggregation that fails or yields zero data (total = 0)
\* leads to no send and no error.
C3_ZeroDataSuppressed ==
    (EvIsRegistration /\ (evt.res.error \/ evt.res.total = 0)) =>
        /\ EvSubmits = {}
        /\ evt.res.status = 200

\* C3 amended: a failed aggregation (identity not found, store error) leads to
\* no send and no error; a successful one, zero data included, hands the
\* evening message to the notifier exactly once, which submits it when the
\* address is non-empty.
C3_FailureSuppressed ==
    EvIsRegistration =>
        /\ evt.res.status = 200
        /\ EvIdentityFails => evt.res.calls = <<>>
        /\ ~EvIdentityFails =>
               /\ Len(evt.res.calls) = 1
               /\ evt.res.calls[1].body.kind = "evening"
               /\ evt.res.calls[1].submitted <=>
                      Truthy(studentsrecord[EvRoll].whatsapp_no)

\* a registration event for a roll number with no identity record
C3_Witness ==
    /\ EvIsRegistration
    /\ ~evt.idFault
    /\ IdentityRow(EvRoll) = <<>>
    /\ evt.res.error
    /\ evt.res.calls = <<>>
    /\ evt.res.status = 200

\* the address on record for the roll number of the current event
EvAddress == Get(IdentityRow(EvRoll), "whatsapp_no")
\* the marks in `marks` that the aggregation of the current event reads
EvMarks(marks) == Cardinality(CellsOf(EvRoll, evt.faults, TableIdx, marks))

\* C12: an INSERT event for a roll number whose identity record is found with
\* an address and whose rows hold at least one recognized mark causes exactly
\* one send, to that address, of the evening message computed from the rows
\* the store holds at that moment; one theory source marked P on 10 of 10
\* days gives 100.00% (10/10).
C12_RegistrationEndToEnd ==
    ( /\ EvIsRegistration
      /\ ~EvIdentityFails
      /\ Truthy(EvAddress)
      /\ Cardinality(CellsOf(EvRoll, {}, TableIdx, {"P", "A"})) >= 1 ) =>
        /\ Len(evt.res.calls) = 1
        /\ EvSubmits = {1}
        /\ evt.res.status = 200
        /\ LET sent == evt.res.calls[1]
           IN  /\ sent.to = EvAddress
               /\ sent.body.kind = "evening"
               /\ sent.body.name = IdentityRow(EvRoll).Name
               /\ sent.body.present = EvMarks({"P"})
               /\ sent.body.total = EvMarks({"P", "A"})
               /\ ( /\ evt.faults = {}
                    /\ subject[EvRoll] =
                           [i \in TableIdx |->
                               IF i = Theory1 THEN TermRow(EvRoll, "P") ELSE <<>>] )
                      => /\ sent.body.present = 10
                         /\ sent.body.total = 10
                         /\ sent.body.current_perc = 10000
                         /\ sent.body.todays_attendance = <<>>

\* the registration of a student whose only row is a theory row marked P on
\* ten days: one message, 100.00%
C12_Witness ==
    /\ EvIsRegistration
    /\ ~EvIdentityFails
    /\ evt.faults = {}
    /\ subject[EvRoll] =
           [i \in TableIdx |-> IF i = Theory1 THEN TermRow(EvRoll, "P") ELSE <<>>]
    /\ EvSubmits = {1}
    /\ evt.res.calls[1].to = "+911"
    /\ evt.res.calls[1].body.kind = "evening"
    /\ evt.res.calls[1].body.current_perc = 10000

\* ------------------------------------------------------------ one firing of a job
\* what the store holds for one roll number: identity and rows
Profiles(roll) ==
    { [id |-> Identity("N1", "+911"), t |-> MakeRow(roll, "P", "A"), l |-> <<>>],
      [id |-> Identity("N1", "+911"), t |-> MakeRow(roll, "L", NULL), l |-> <<>>],
      [id |-> Identity("N1", "+911"), t |-> <<>>, l |-> MakeRow(roll, "A", "P")],
      [id |-> Identity("N1", ""), t |-> MakeRow(roll, "P", "P"), l |-> <<>>],
      [id |-> Identity("N1", NULL), t |-> MakeRow(roll, "P", "P"), l |-> <<>>],
      [id |-> <<>>, t |-> <<>>, l |-> <<>>] }

StoreOf(prof) ==
    /\ studentsrecord = [r \in Rolls |-> prof[r].id]
    /\ subject = [r \in Rolls |->
                     [i \in TableIdx |->
                         IF i = Theory1 THEN prof[r].t
                         ELSE IF i = Lab1 THEN prof[r].l ELSE <<>>]]

InitJob ==
    /\ \E prof \in [Rolls -> UNION {Profiles(r) : r \in Rolls}] :
           /\ \A r \in Rolls : prof[r] \in Profiles(r)
           /\ StoreOf(prof)
    /\ singleRaises \in BOOLEAN
    /\ now = [day |-> 0, slot |-> 0]
    /\ agg = [called |-> FALSE]
    /\ evt = [handler |-> "idle"]
    /\ \E f \in {"format_morning_message", "format_evening_message"} :
           job = JobCall(f)
    /\ sched = [pc |-> "off"]
    /\ fired = NoneFired
    /\ fmt = [called |-> FALSE]

NextJob == JobList \/ JobRecipient \/ JobReturn

SpecJob == InitJob /\ [][NextJob]_vars

\* ------------------------------------------------------------ claims on one firing
JobLog == IF job.pc = "idle" THEN <<>> ELSE job.log
JobReturned == job.pc = "returned" /\ job.listed

\* the aggregation of entry e found the identity
AggOK(e) == ~e.idFault /\ IdentityRow(e.roll) # <<>>
\* recognized marks read for entry e in the tables T
MarksRead(e, T) == Cardinality(CellsOf(e.roll, e.faults, T, {"P", "A"}))
Called(e) == Len(e.calls) = 1
Submitted(e) == Called(e) /\ e.calls[1].submitted

C6_BatchIsolation ==
    /\ job.pc = "loop" => Len(job.log) = job.idx - 1
    /\ JobReturned =>
           /\ ~job.crashed
           /\ Len(job.log) = Len(job.students)
           /\ \A k \in 1..Len(job.log) :
                  LET e == job.log[k]
                  IN  /\ e.roll = job.students[k]
                      /\ ( /\ AggOK(e)
                           /\ MarksRead(e, TableIdx) > 0
                           /\ Truthy(studentsrecord[e.roll].whatsapp_no) )
                         => Submitted(e)

\* the first recipient's send fails at the gateway and the second recipient
\* is still sent its message
C6_Witness ==
    /\ JobReturned
    /\ Len(job.log) = 2
    /\ Submitted(job.log[1]) /\ job.log[1].calls[1].failed
    /\ Submitted(job.log[2]) /\ ~job.log[2].calls[1].failed

\* C8 as stated: the pacing delay is taken only with a send that occurred
\* (a message submitted to the gateway).
C8_PacingOnlyWithSubmission ==
    \A k \in 1..Len(JobLog) : JobLog[k].slept => Submitted(JobLog[k])

\* C8 amended: the pacing delay follows every call of the notifier made by
\* the job, also when the notifier skipped an empty address or the gateway
\* failed; a recipient the job skips (aggregation failed or total = 0)
\* causes no pacing delay.
C8_PacingAfterNotifierCall ==
    \A k \in 1..Len(JobLog) :
        LET e == JobLog[k]
        IN  /\ e.slept <=> Called(e)
            /\ (~AggOK(e) \/ MarksRead(e, TableIdx) = 0) => ~e.slept

\* a skipped recipient that did not pace next to a sent one that did
C8_Witness ==
    /\ JobReturned
    /\ Len(job.log) = 2
    /\ job.log[1].calls = <<>> /\ ~job.log[1].slept
    /\ Submitted(job.log[2]) /\ job.log[2].slept

\* C11: the notifier called with an absent or empty address makes no gateway
\* submission and does not raise; called with a non-empty address it makes
\* its one gateway submission, and a gateway error on it stays inside the
\* notifier: the caller goes on to its next statement.
C11_NotifierOutcomes ==
    \A k \in 1..Len(JobLog) :
        LET e == JobLog[k]
        IN  \A n \in 1..Len(e.calls) :
                LET sent == e.calls[n]
                IN  /\ sent.submitted <=> Truthy(sent.to)
                    /\ sent.failed => sent.submitted
                    /\ ~sent.raised
                    /\ ~e.raised /\ e.slept

\* one firing in which the notifier skipped an empty address and, for the
\* next recipient, caught a gateway error; the job returned normally
C11_Witness ==
    /\ JobReturned /\ ~job.crashed
    /\ Len(job.log) = 2
    /\ Called(job.log[1]) /\ job.log[1].calls[1].to = ""
    /\ ~job.log[1].calls[1].submitted
    /\ Submitted(job.log[2]) /\ job.log[2].calls[1].failed

\* ------------------------------------------------------------ the scheduler thread
InitSched ==
    /\ StoreOf([r \in Rolls |->
                   IF r = "R1" THEN [id |-> Identity("N1", "+911"),
                                     t |-> MakeRow(r, "P", "A"), l |-> <<>>]
                   ELSE [id |-> <<>>, t |-> <<>>, l |-> <<>>]])
    /\ singleRaises \in BOOLEAN
    /\ \E slot \in 0..(TicksPerDay - 1) : now = [day |-> 0, slot |-> slot]
    /\ agg = [called |-> FALSE]
    /\ evt = [handler |-> "idle"]
    /\ job = [pc |-> "idle"]
    /\ sched = Registered(now)
    /\ fired = NoneFired
    /\ fmt = [called |-> FALSE]

Next ==
    \/ RunPending \/ StartJob \/ JobList \/ JobRecipient \/ JobReturn
    \/ FinishJob \/ Sleep \/ Oversleep \/ Busy

Spec == InitSched /\ [][Next]_vars

InitLastDay ==
    /\ StoreOf([r \in Rolls |->
                   IF r \in {"R1", "R2"}
                   THEN [id |-> Identity("N1", "+911"),
                         t |-> MakeRow(r, "P", "A"), l |-> <<>>]
                   ELSE [id |-> <<>>, t |-> <<>>, l |-> <<>>]])
    /\ singleRaises \in BOOLEAN
    /\ \E slot \in 0..(TicksPerDay - 1) : now = [day |-> MaxDay, slot |-> slot]
    /\ agg = [called |-> FALSE]
    /\ evt = [handler |-> "idle"]
    /\ job = [pc |-> "idle"]
    /\ sched = Registered(now)
    /\ fired = NoneFired
    /\ fmt = [called |-> FALSE]

\* The scheduler thread is scheduled: each statement of the loop and of the
\* job is followed by the next one, and the listing query returns or raises.
\* Oversleep and Busy are not forced.  That the store and gateway calls made
\* for a recipient return is not assumed here: it is FiringsEnd.
SpecLive ==
    /\ InitLastDay /\ [][Next]_vars
    /\ WF_vars(RunPending) /\ WF_vars(StartJob) /\ WF_vars(JobList)
    /\ WF_vars(JobReturn) /\ WF_vars(FinishJob) /\ WF_vars(Sleep)

\* no firing stays for ever in the calls made for one recipient
FiringsEnd == []<>(job.pc # "loop" \/ job.idx > Len(job.students))

\* job j is due and is not the job in progress
Waiting(j) ==
    /\ Abs(now) >= sched.next_run[j]
    /\ job.pc = "idle" \/ job.formatter # j
\* run_scheduled_job(j) has just been called
Running(j) == job.pc = "called" /\ job.formatter = j
\* the latest firing of job j printed the error line
Crashed(j) == fired[j] # <<>> /\ fired[j][Len(fired[j])].error

\* C15: a firing that fails as a whole (the listing raises) ends inside the
\* job; the loop goes back to polling; and from then on a job that is due is
\* still fired (no firing hanging for ever).
C15_SurvivesCrash ==
    /\ [](job.pc # "raised")
    /\ FiringsEnd =>
           /\ (job.pc # "idle" /\ job.crashed)
                  ~> (job.pc = "idle" /\ sched.pc = "poll")
           /\ \A j \in {Jobs[1], Jobs[2]} :
                  ((\E c \in {Jobs[1], Jobs[2]} : Crashed(c)) /\ Waiting(j))
                      ~> Running(j)

\* the morning firing crashed on its listing and the evening firing of the
\* same day has started after it
C15_Witness ==
    /\ Crashed(Jobs[1])
    /\ Running(Jobs[2])
    /\ fired[Jobs[2]][Len(fired[Jobs[2]])].start
           > fired[Jobs[1]][Len(fired[Jobs[1]])].start

\* C19: a firing starts only when no firing is in progress, each firing
\* being a call made by run_pending; an evening firing that falls due while
\* the morning firing runs starts after the morning firing has ended, and it
\* does start if firings end.
C19_OneAtATime ==
    /\ [][(job' # job /\ job'.pc = "called") => job.pc = "idle"]_vars
    /\ [](job.pc # "idle" =>
              /\ sched.pc = "run"
              /\ sched.pending # <<>>
              /\ Head(sched.pending) = job.formatter)
    /\ FiringsEnd =>
           (( /\ job.pc \in {"called", "loop"}
              /\ job.formatter = Jobs[1]
              /\ Abs(now) >= sched.next_run[Jobs[2]] ) ~> Running(Jobs[2]))

\* the morning firing started at or after 16:00 with the evening job due,
\* took a poll tick or more, and the evening firing has started after it
C19_Witness ==
    /\ Running(Jobs[2])
    /\ fired[Jobs[1]] # <<>>
    /\ fired[Jobs[1]][Len(fired[Jobs[1]])].start
           >= fired[Jobs[2]][Len(fired[Jobs[2]])].due
    /\ fired[Jobs[2]][Len(fired[Jobs[2]])].start
           > fired[Jobs[1]][Len(fired[Jobs[1]])].start

\* ------------------------------------------------------------ the whole process
\* __main__, lines 231-235: the scheduler thread runs next to the request
\* handling of app.run.  The events are well-formed ones about R1, dated today.
RegistrationEvent ==
    /\ evt.handler = "idle"
    /\ \E type \in Types, idFault \in BOOLEAN, faults \in {{}, {Theory1}},
          gwFault \in BOOLEAN :
           LET payload == Payload({"type", "table", "record"}, type,
                                  <<"studentsrecord">>,
                                  EventRowOn(now.day, "R1", "MISSING", "P"), <<>>)
           IN  evt' = [handler |-> "new_student", payload |-> payload,
                       idFault |-> idFault, faults |-> faults,
                       gwFault |-> gwFault,
                       res |-> handle_new_student(payload, idFault, faults,
                                                  gwFault, now)]
    /\ UNCHANGED <<store, fmt, now, agg, job, sched, fired>>

AbsenceEvent ==
    /\ evt.handler = "idle"
    /\ \E type \in Types, lookupFault \in BOOLEAN, gwFault \in BOOLEAN :
           LET payload == Payload({"type", "table", "record", "old_record"},
                                  type, SUBJECT_TABLES[Theory1],
                                  EventRowOn(now.day, "R1", "A", "P"),
                                  EventRowOn(now.day, "R1", "P", "P"))
           IN  evt' = [handler |-> "absent_alert", payload |-> payload,
                       lookupFault |-> lookupFault, gwFault |-> gwFault,
                       res |-> handle_absent_alert(payload, lookupFault,
                                                   gwFault, now)]
    /\ UNCHANGED <<store, fmt, now, agg, job, sched, fired>>

NextApp ==
    \/ Next
    \/ RegistrationEvent \/ AbsenceEvent \/ ReturnResponse

\* The scheduler thread takes its steps as in SpecLive.  Nothing is assumed
\* of the request handling: a handler may never return.
SpecApp ==
    /\ InitLastDay /\ [][NextApp]_vars
    /\ WF_vars(RunPending) /\ WF_vars(StartJob) /\ WF_vars(JobList)
    /\ WF_vars(JobReturn) /\ WF_vars(FinishJob) /\ WF_vars(Sleep)

\* ------------------------------------------------------------ claims on the whole process
\* C16: one firing handles each listed recipient once and one event is
\* answered once, each with at most one gateway submission for the recipient,
\* also when that submission fails.
C16_NoRetry ==
    /\ Len(JobLog) <= (IF job.pc = "idle" THEN 0 ELSE Len(job.students))
    /\ \A k \in 1..Len(JobLog) :
           /\ Len(JobLog[k].calls) <= 1
           /\ JobLog[k].roll = job.students[k]
           /\ \A n \in 1..Len(JobLog) : JobLog[n].roll = JobLog[k].roll => n = k
    /\ evt.handler # "idle" => Len(evt.res.calls) <= 1

\* a firing over, the submission for its first recipient having failed, and
\* an absence event whose submission failed
C16_Witness ==
    /\ job.pc = "returned" /\ ~job.crashed
    /\ Len(job.log) = 2
    /\ Submitted(job.log[1]) /\ job.log[1].calls[1].failed
    /\ Submitted(job.log[2])
    /\ evt.handler = "absent_alert"
    /\ Len(evt.res.calls) = 1 /\ evt.res.calls[1].failed

\* C17: the scheduler thread and the request handling do not touch each
\* other's state; while a firing hangs in a store or gateway call a request
\* is still taken; and while a handler hangs, even for ever, the loop goes on
\* and a job that is due is fired.
C17_Independence ==
    /\ [][(evt' # evt) => UNCHANGED <<job, sched, fired, now>>]_vars
    /\ [][(<<job, sched, fired>>' # <<job, sched, fired>>) => UNCHANGED evt]_vars
    /\ []((job.pc \in {"called", "loop"} /\ evt.handler = "idle")
              => ENABLED AbsenceEvent)
    /\ FiringsEnd =>
           \A j \in {Jobs[1], Jobs[2]} : Waiting(j) ~> Running(j)

\* a firing hanging for a poll tick or more in its loop, an absence alert
\* sent meanwhile and its handler not yet returned
C17_Witness ==
    /\ job.pc = "loop"
    /\ fired[job.formatter][Len(fired[job.formatter])].start < Abs(now)
    /\ evt.handler = "absent_alert"
    /\ EvSubmits = {1}

\* C20: no step of the process (a firing with its aggregations, a
\* registration event, an absence event) changes an identity record or a
\* subject row.
C20_StoreReadOnly ==
    [][studentsrecord' = studentsrecord /\ subject' = subject]_vars

\* a firing that sent to both students is over and a registration event has
\* been answered with a send: the store is as it was at the start
C20_Witness ==
    /\ job.pc = "returned"
    /\ Len(job.log) = 2
    /\ Submitted(job.log[1]) /\ Submitted(job.log[2])
    /\ evt.handler = "new_student"
    /\ EvSubmits = {1}
    /\ \A r \in {"R1", "R2"} :
           /\ studentsrecord[r] = Identity("N1", "+911")
           /\ subject[r][Theory1] = MakeRow(r, "P", "A")

====
